---- MODULE Spec2Model ----
(***************************************************************************)
(* Model of the skywalking-php worker daemon (src/src/worker.rs).          *)
(*                                                                         *)
(* init_worker forks a child which takes the pid lock, removes a stale     *)
(* socket file and runs start_worker on a tokio runtime.  start_worker     *)
(* registers the signal handlers, then races (select!) the pipeline future *)
(* against SIGTERM / SIGINT.  The pipeline binds the unix socket, creates  *)
(* the bounded mpsc channel, spawns the accept loop (one decode task per   *)
(* connection), starts the keep-alive reporter and runs the upstream       *)
(* reporter on the receiving half.                                         *)
(*                                                                         *)
(* Environment assumptions (library / operating system, not repository     *)
(* code): flock grants the lock to at most one open file description and   *)
(* releases it at process exit; remove_file succeeds on an existing file   *)
(* and fails with NotFound on an absent one; bind fails when the path      *)
(* exists; the tokio mpsc channel is FIFO with the given capacity.         *)
(***************************************************************************)
EXTENDS Naturals, Integers, Sequences, FiniteSets, TLC

\* ---------------------------------------------------------------- bounds
NProcs == 2
NConns == 2
MaxFrames == 2
MaxCapacity == 2
MaxBeats == 1
MaxAcceptErrs == 1

\* mpsc::channel::<CollectItem>(255)
ChannelCapacity == 255

\* The capacity the channel is created with, capped for finite checking.
Capacity == IF MaxCapacity < ChannelCapacity THEN MaxCapacity ELSE ChannelCapacity

Procs == 1 .. NProcs
Conns == 1 .. NConns

NoItem == <<>>
NotExited == 0 - 1

\* the file at SOCKET_FILE_PATH: absent, left over by a crashed earlier
\* instance, or bound by the listener of process p
Absent == [exists |-> FALSE, by |-> {}]
Stale == [exists |-> TRUE, by |-> {}]
BoundBy(p) == [exists |-> TRUE, by |-> {p}]

VARIABLES
    pc,        \* [Procs -> position of the forked child in init_worker / start_worker]
    lock,      \* set of processes holding the pid lock file ({} if free)
    sockFile,  \* the file at SOCKET_FILE_PATH (Absent, Stale, BoundBy(p))
    fsOps,     \* [Procs -> socket-file operations the process has performed]
    res,       \* [Procs -> result of start_worker: "none", "Ok", "Err"]
    cause,     \* [Procs -> what ended start_worker]
    exitCode,  \* [Procs -> status passed to exit(), NotExited before]
    guardLog,  \* [Procs -> what WorkerExitGuard::drop logged]
    queue,     \* [Procs -> contents of the mpsc channel]
    rxAlive,   \* [Procs -> the Receiver (given to run_reporter) exists]
    accepted,  \* [Procs -> items that entered the channel, in order]
    delivered, \* [Procs -> items the reporter obtained from the Consumer, in order]
    dropped,   \* [Procs -> items whose try_send returned Full]
    destroyed, \* [Procs -> items that were in the channel when the Receiver was dropped]
    cst,       \* [Conns -> state of the connection and of its decode task]
    csrv,      \* [Conns -> the process whose listener it connected to, {} before]
    cfr,       \* [Conns -> outcomes of the frames received so far ("item" / "bad")]
    cr,        \* [Conns -> item r held between channel_receive and try_send]
    beats,     \* [Procs -> keep-alive events emitted]
    acceptErrs, \* [Procs -> accept errors logged]
    acceptLoop \* [Procs -> the spawned accept loop is at listener.accept()]

vars == <<pc, lock, sockFile, fsOps, res, cause, exitCode, guardLog, queue,
          rxAlive, accepted, delivered, dropped, destroyed, cst, csrv, cfr, cr, beats,
          acceptErrs, acceptLoop>>

procVars == <<pc, lock, sockFile, fsOps, res, cause, exitCode, guardLog>>
chanVars == <<queue, rxAlive, accepted, delivered, dropped, destroyed>>
connVars == <<cst, csrv, cfr, cr>>

\* ------------------------------------------------------------ pure parts

\* Below, a definition named after another with a suffix (x_shared,
\* x_ignored, ...) is that definition with a plausible fault, used to show
\* that a property depends on the code it is stated about.

\* LockFile::try_lock_with_pid: an exclusive non-blocking lock
\* (fault: the lock is granted although another process holds it)
try_lock_with_pid_shared(lk, p) == [ok |-> TRUE, lk |-> lk \cup {p}]

try_lock_with_pid(lk, p) ==
    IF lk = {} THEN [ok |-> TRUE, lk |-> {p}] ELSE [ok |-> FALSE, lk |-> lk]

\* init_worker: if !pid_lock.try_lock_with_pid().unwrap() { return; }
\* (fault: the result of try_lock_with_pid is not looked at)
after_try_lock_ignored(ok) == "locked"

after_try_lock(ok) == IF ok THEN "locked" ELSE "returned"

\* fs::remove_file: removes an existing file, NotFound otherwise
remove_file(f) ==
    IF f.exists THEN [ok |-> TRUE, f |-> Absent] ELSE [ok |-> FALSE, f |-> f]

\* init_worker: remove the socket file if fs::metadata finds one
remove_stale(f) == IF f.exists THEN remove_file(f).f ELSE f

\* UnixListener::bind: fails (AddrInUse) when the path exists
bind(f, p) ==
    IF f.exists THEN [ok |-> FALSE, f |-> f] ELSE [ok |-> TRUE, f |-> BoundBy(p)]

\* WorkerExitGuard::drop; forced: Lazy::get(&SOCKET_FILE_PATH) is Some
\* (fault: the guard takes the None branch and removes nothing)
guard_drop_keeps_file(f, forced) == [f |-> f, log |-> "not_created"]

guard_drop(f, forced) ==
    IF forced
    THEN [f |-> remove_file(f).f,
          log |-> IF remove_file(f).ok THEN "removed" ELSE "remove_failed"]
    ELSE [f |-> f, log |-> "not_created"]

\* tokio mpsc Sender::try_send on a channel with contents q whose receiver
\* exists iff rx: Closed takes precedence over Full.
\* (faults: no capacity check; the item is put at the head)
try_send_unbounded(q, rx, item) ==
    IF ~rx THEN [out |-> "Closed", q |-> q]
    ELSE [out |-> "Ok", q |-> Append(q, item)]

try_send_lifo(q, rx, item) ==
    IF ~rx THEN [out |-> "Closed", q |-> q]
    ELSE IF Len(q) >= Capacity THEN [out |-> "Full", q |-> q]
    ELSE [out |-> "Ok", q |-> <<item>> \o q]

\* (fault: on a full channel the oldest item makes room for the new one)
try_send_evicts_oldest(q, rx, item) ==
    IF ~rx THEN [out |-> "Closed", q |-> q]
    ELSE IF Len(q) >= Capacity THEN [out |-> "Full", q |-> Append(Tail(q), item)]
    ELSE [out |-> "Ok", q |-> Append(q, item)]

try_send(q, rx, item) ==
    IF ~rx THEN [out |-> "Closed", q |-> q]
    ELSE IF Len(q) >= Capacity THEN [out |-> "Full", q |-> q]
    ELSE [out |-> "Ok", q |-> Append(q, item)]

\* drop of the Receiver (it goes with the pipeline future when select!
\* resolves or run_reporter returns): the channel is closed and the items
\* it holds are destroyed
drop_receiver(q) == [q |-> <<>>, destroyed |-> q]

\* what the drop of the pipeline future by select! does to a channel with
\* contents q whose Receiver exists iff rx.  run_reporter got Consumer(rx)
\* by value; inFuture: it holds the Consumer in its own future, which is
\* dropped here; otherwise it moved the Consumer into a task it spawned,
\* which outlives the future and goes on until the process exits
drop_pipeline(q, rx, inFuture) ==
    IF rx /\ ~inFuture
    THEN [rx |-> TRUE, q |-> q, destroyed |-> <<>>]
    ELSE [rx |-> FALSE, q |-> drop_receiver(q).q, destroyed |-> drop_receiver(q).destroyed]

\* Consumer::try_consume: self.0.try_recv().ok()
\* (fault: the item returned stays in the channel)
try_consume_keeps_head(q) ==
    IF q = <<>> THEN [out |-> "None", item |-> NoItem, q |-> q]
    ELSE [out |-> "Some", item |-> Head(q), q |-> q]

try_consume(q) ==
    IF q = <<>> THEN [out |-> "None", item |-> NoItem, q |-> q]
    ELSE [out |-> "Some", item |-> Head(q), q |-> Tail(q)]

\* Consumer::consume: self.0.recv().await; Pending while the channel is empty
\* and a Sender exists, None once it is empty and every Sender is dropped.
\* (fault: recv on an empty channel returns None although Senders exist)
consume_closed_when_empty(q, senders) ==
    IF q # <<>> THEN [out |-> "Some", item |-> Head(q), q |-> Tail(q)]
    ELSE [out |-> "None", item |-> NoItem, q |-> q]

consume(q, senders) ==
    IF q # <<>> THEN [out |-> "Some", item |-> Head(q), q |-> Tail(q)]
    ELSE IF senders > 0 THEN [out |-> "Pending", item |-> NoItem, q |-> q]
    ELSE [out |-> "None", item |-> NoItem, q |-> q]

\* what the decode loop does with the outcome of try_send (lines 169-174)
\* (fault: any error, Full included, ends the loop)
after_try_send_stop_on_full(out) == IF out = "Ok" THEN "recv" ELSE "ended"

\* (fault: a closed channel does not end the loop either)
after_try_send_never_stops(out) == "recv"

after_try_send(out) == IF out = "Closed" THEN "ended" ELSE "recv"

\* what the decode loop does with the outcome of channel_receive (lines 152-164)
\* (faults: any error ends the loop; a decoded item is not passed on)
after_receive_stop_on_error(kind) ==
    CASE kind = "item" -> "send"
      [] kind = "eof" -> "closed"
      [] OTHER -> "closed"

after_receive_skips_send(kind) ==
    CASE kind = "eof" -> "closed"
      [] OTHER -> "recv"

after_receive(kind) ==
    CASE kind = "item" -> "send"
      [] kind = "eof" -> "closed"
      [] OTHER -> "recv"

\* what the accept loop does with the outcome of listener.accept() (lines
\* 143-181): neither arm of the match leaves the loop; TRUE: accept again
\* (fault: an accept error ends the loop)
after_accept_stop_on_error(out) == out = "Ok"

after_accept(out) == out \in {"Ok", "Err"}

\* exit status chosen by init_worker from the result of start_worker
\* (fault: the error result is not turned into a non-zero status)
exit_status_always_zero(r) == 0

exit_status(r) == IF r = "Ok" THEN 0 ELSE 1

\* ------------------------------------------------------- derived state

\* the pipeline of p was started: socket bound, accept loop and keep-alive
\* reporter spawned; the tasks run until the process exits
Spawned(p) == "bind" \in fsOps[p] /\ pc[p] \in {"running", "dropguard", "exiting"}

\* SOCKET_FILE_PATH (a Lazy) has been forced: init_worker dereferences it
\* at fs::metadata, before start_worker
LazyForced(p) == pc[p] \notin {"forked", "returned", "locked"}

Srv(c) == CHOOSE p \in csrv[c] : TRUE

\* the Senders of p's channel: tx in the accept loop, tx_ in the keep-alive
\* reporter, one clone per decode task
Senders(p) ==
    IF Spawned(p)
    THEN 2 + Cardinality({c \in Conns : csrv[c] = {p} /\ cst[c] \in {"recv", "send"}})
    ELSE 0

\* ------------------------------------------------------------------ Init
Init ==
    /\ pc = [p \in Procs |-> "forked"]
    /\ lock = {}
    /\ sockFile \in {Absent, Stale}
    /\ fsOps = [p \in Procs |-> {}]
    /\ res = [p \in Procs |-> "none"]
    /\ cause = [p \in Procs |-> "none"]
    /\ exitCode = [p \in Procs |-> NotExited]
    /\ guardLog = [p \in Procs |-> "none"]
    /\ queue = [p \in Procs |-> <<>>]
    /\ rxAlive = [p \in Procs |-> FALSE]
    /\ accepted = [p \in Procs |-> <<>>]
    /\ delivered = [p \in Procs |-> <<>>]
    /\ dropped = [p \in Procs |-> {}]
    /\ destroyed = [p \in Procs |-> <<>>]
    /\ cst = [c \in Conns |-> "idle"]
    /\ csrv = [c \in Conns |-> {}]
    /\ cfr = [c \in Conns |-> <<>>]
    /\ cr = [c \in Conns |-> NoItem]
    /\ beats = [p \in Procs |-> 0]
    /\ acceptErrs = [p \in Procs |-> 0]
    /\ acceptLoop = [p \in Procs |-> FALSE]

\* ------------------------------------------------- init_worker (child)

\* lines 68-73: open the lock file and try to lock it
TryLock(p) ==
    /\ pc[p] = "forked"
    /\ LET t == try_lock_with_pid(lock, p) IN
        /\ lock' = t.lk
        /\ pc' = [pc EXCEPT ![p] = after_try_lock(t.ok)]
    /\ UNCHANGED <<sockFile, fsOps, res, cause, exitCode, guardLog>>
    /\ UNCHANGED <<chanVars, connVars, beats, acceptErrs, acceptLoop>>

\* lines 76-89: remove a socket file found at the path, build the runtime
RemoveStaleSocket(p) ==
    /\ pc[p] = "locked"
    /\ sockFile' = remove_stale(sockFile)
    /\ fsOps' = [fsOps EXCEPT ![p] = IF sockFile.exists THEN @ \cup {"remove"} ELSE @]
    /\ pc' = [pc EXCEPT ![p] = "start"]
    /\ UNCHANGED <<lock, res, cause, exitCode, guardLog>>
    /\ UNCHANGED <<chanVars, connVars, beats, acceptErrs, acceptLoop>>

\* lines 91-97: exit with the status of start_worker's result.  The process
\* ends: its lock is released and everything it held in memory (channel,
\* tasks, connections, logs) is gone.
Exit(p) ==
    /\ pc[p] = "exiting"
    /\ pc' = [pc EXCEPT ![p] = "exited"]
    /\ exitCode' = [exitCode EXCEPT ![p] = exit_status(res[p])]
    /\ lock' = lock \ {p}
    /\ res' = [res EXCEPT ![p] = "none"]
    /\ fsOps' = [fsOps EXCEPT ![p] = {}]
    /\ guardLog' = [guardLog EXCEPT ![p] = "none"]
    /\ queue' = [queue EXCEPT ![p] = <<>>]
    /\ accepted' = [accepted EXCEPT ![p] = <<>>]
    /\ delivered' = [delivered EXCEPT ![p] = <<>>]
    /\ dropped' = [dropped EXCEPT ![p] = {}]
    /\ destroyed' = [destroyed EXCEPT ![p] = <<>>]
    /\ beats' = [beats EXCEPT ![p] = 0]
    /\ acceptErrs' = [acceptErrs EXCEPT ![p] = 0]
    /\ acceptLoop' = [acceptLoop EXCEPT ![p] = FALSE]
    /\ cst' = [c \in Conns |-> IF csrv[c] = {p} THEN "dead" ELSE cst[c]]
    /\ cfr' = [c \in Conns |-> IF csrv[c] = {p} THEN <<>> ELSE cfr[c]]
    /\ cr' = [c \in Conns |-> IF csrv[c] = {p} THEN NoItem ELSE cr[c]]
    /\ rxAlive' = [rxAlive EXCEPT ![p] = FALSE]
    /\ UNCHANGED <<sockFile, cause, csrv>>

\* ----------------------------------------------------------- start_worker

\* lines 127-131: create the guard, register SIGTERM and SIGINT; a failed
\* registration returns the error (the guard is dropped next)
RegisterSignals(p) ==
    /\ pc[p] = "start"
    /\ \E ok \in BOOLEAN :
        /\ pc' = [pc EXCEPT ![p] = IF ok THEN "select" ELSE "dropguard"]
        /\ res' = [res EXCEPT ![p] = IF ok THEN @ ELSE "Err"]
        /\ cause' = [cause EXCEPT ![p] = IF ok THEN @ ELSE "sigreg"]
    /\ UNCHANGED <<lock, sockFile, fsOps, exitCode, guardLog>>
    /\ UNCHANGED <<chanVars, connVars, beats, acceptErrs, acceptLoop>>

\* lines 135-185, first poll of the pipeline future: bind the socket (envOk:
\* the directory is usable), create the channel, spawn the accept loop and
\* the keep-alive reporter, enter run_reporter.  A bind error completes the
\* future with Err, which select! returns through r?.
BindListener(p) ==
    /\ pc[p] = "select"
    /\ \E envOk \in BOOLEAN :
        LET b == bind(sockFile, p) IN
        IF envOk /\ b.ok
        THEN /\ sockFile' = b.f
             /\ fsOps' = [fsOps EXCEPT ![p] = @ \cup {"bind"}]
             /\ queue' = [queue EXCEPT ![p] = <<>>]
             /\ rxAlive' = [rxAlive EXCEPT ![p] = TRUE]
             /\ acceptLoop' = [acceptLoop EXCEPT ![p] = TRUE]
             /\ pc' = [pc EXCEPT ![p] = "running"]
             /\ UNCHANGED <<res, cause>>
        ELSE /\ pc' = [pc EXCEPT ![p] = "dropguard"]
             /\ res' = [res EXCEPT ![p] = "Err"]
             /\ cause' = [cause EXCEPT ![p] = "bind"]
             /\ UNCHANGED <<sockFile, fsOps, queue, rxAlive, acceptLoop>>
    /\ UNCHANGED <<lock, exitCode, guardLog>>
    /\ UNCHANGED <<accepted, delivered, dropped, destroyed, connVars, beats, acceptErrs>>

\* lines 194-204: select! resolves on a signal branch; the pipeline future
\* is dropped and start_worker returns Ok.  Whether the Receiver (and the
\* items still in the channel) goes with the future depends on run_reporter,
\* whose code is not part of worker.rs: both outcomes are behaviours.
Signal(p, sig) ==
    /\ pc[p] \in {"select", "running"}
    /\ pc' = [pc EXCEPT ![p] = "dropguard"]
    /\ res' = [res EXCEPT ![p] = "Ok"]
    /\ cause' = [cause EXCEPT ![p] = sig]
    /\ \E inFuture \in BOOLEAN :
        LET d == drop_pipeline(queue[p], rxAlive[p], inFuture) IN
        /\ rxAlive' = [rxAlive EXCEPT ![p] = d.rx]
        /\ queue' = [queue EXCEPT ![p] = d.q]
        /\ destroyed' = [destroyed EXCEPT ![p] = d.destroyed]
    /\ UNCHANGED <<lock, sockFile, fsOps, exitCode, guardLog>>
    /\ UNCHANGED <<accepted, delivered, dropped, connVars, beats, acceptErrs, acceptLoop>>

SigTerm(p) == Signal(p, "sigterm")

SigInt(p) == Signal(p, "sigint")

\* lines 188-199: run_reporter returns and the Consumer it owned is dropped
\* with the items still in the channel; Err is propagated by the two ?
ReporterReturns(p, r) ==
    /\ pc[p] = "running"
    /\ pc' = [pc EXCEPT ![p] = "dropguard"]
    /\ res' = [res EXCEPT ![p] = r]
    /\ cause' = [cause EXCEPT ![p] = IF r = "Ok" THEN "done" ELSE "fatal"]
    /\ rxAlive' = [rxAlive EXCEPT ![p] = FALSE]
    /\ queue' = [queue EXCEPT ![p] = drop_receiver(@).q]
    /\ destroyed' = [destroyed EXCEPT ![p] = drop_receiver(queue[p]).destroyed]
    /\ UNCHANGED <<lock, sockFile, fsOps, exitCode, guardLog>>
    /\ UNCHANGED <<accepted, delivered, dropped, connVars, beats, acceptErrs, acceptLoop>>

ReporterFailed(p) == ReporterReturns(p, "Err")

ReporterDone(p) == ReporterReturns(p, "Ok")

\* lines 223-237: _guard goes out of scope when start_worker returns
WorkerExitGuardDrop(p) ==
    /\ pc[p] = "dropguard"
    /\ LET g == guard_drop(sockFile, LazyForced(p)) IN
        /\ sockFile' = g.f
        /\ guardLog' = [guardLog EXCEPT ![p] = g.log]
        /\ fsOps' = [fsOps EXCEPT ![p] = IF g.log = "not_created" THEN @
                                         ELSE @ \cup {"guard_remove"}]
    /\ pc' = [pc EXCEPT ![p] = "exiting"]
    /\ UNCHANGED <<lock, res, cause, exitCode>>
    /\ UNCHANGED <<chanVars, connVars, beats, acceptErrs, acceptLoop>>

\* ------------------------------------------------ accept loop, decode tasks

\* a producer connects to the socket file: the connection waits in the
\* backlog of the listener the file names (bound at line 137) until the
\* accept loop takes it
Connect(p, c) ==
    /\ Spawned(p)
    /\ sockFile = BoundBy(p)
    /\ cst[c] = "idle"
    /\ cst' = [cst EXCEPT ![c] = "connected"]
    /\ csrv' = [csrv EXCEPT ![c] = {p}]
    /\ UNCHANGED <<procVars, chanVars, cfr, cr, beats, acceptErrs, acceptLoop>>

\* lines 144-148: listener.accept() returns a connection of the backlog
\* (the socket file is not needed any more) and the accept loop spawns the
\* decode task of the connection
Accept(p, c) ==
    /\ Spawned(p)
    /\ acceptLoop[p]
    /\ cst[c] = "connected"
    /\ csrv[c] = {p}
    /\ cst' = [cst EXCEPT ![c] = "recv"]
    /\ acceptLoop' = [acceptLoop EXCEPT ![p] = after_accept("Ok")]
    /\ UNCHANGED <<procVars, chanVars, csrv, cfr, cr, beats, acceptErrs>>

\* lines 178-180: accept fails; the error is logged and the loop goes on
AcceptFailed(p) ==
    /\ Spawned(p)
    /\ acceptLoop[p]
    /\ acceptErrs[p] < MaxAcceptErrs
    /\ acceptErrs' = [acceptErrs EXCEPT ![p] = @ + 1]
    /\ acceptLoop' = [acceptLoop EXCEPT ![p] = after_accept("Err")]
    /\ UNCHANGED <<procVars, chanVars, connVars, beats>>

\* channel::channel_receive on the stream of c: the next frame decodes to
\* an item ("item"), fails to decode ("bad"), or the peer has closed ("eof")
RECURSIVE FramesUpTo(_)
FramesUpTo(c) == IF c = 0 THEN 0 ELSE Len(cfr[c]) + FramesUpTo(c - 1)

channel_receive(c) ==
    {"eof"} \cup (IF FramesUpTo(NConns) < MaxFrames THEN {"item", "bad"} ELSE {})

\* lines 152-164: one channel_receive of the decode loop and its match
ChannelReceive(c) ==
    /\ cst[c] = "recv"
    /\ \E kind \in channel_receive(c) :
        /\ cst' = [cst EXCEPT ![c] = after_receive(kind)]
        /\ cfr' = [cfr EXCEPT ![c] = IF kind = "eof" THEN @ ELSE Append(@, kind)]
        /\ cr' = [cr EXCEPT ![c] = IF kind = "item" THEN <<c, Len(cfr[c]) + 1>> ELSE NoItem]
    /\ UNCHANGED <<procVars, chanVars, csrv, beats, acceptErrs, acceptLoop>>

\* lines 169-174: tx.try_send(r) and the match on its error
TrySend(c) ==
    /\ cst[c] = "send"
    /\ LET p == Srv(c)
           t == try_send(queue[p], rxAlive[p], cr[c])
       IN
        /\ queue' = [queue EXCEPT ![p] = t.q]
        /\ accepted' = [accepted EXCEPT ![p] = IF t.out = "Ok" THEN Append(@, cr[c]) ELSE @]
        /\ dropped' = [dropped EXCEPT ![p] = IF t.out = "Full" THEN @ \cup {cr[c]} ELSE @]
        /\ cst' = [cst EXCEPT ![c] = after_try_send(t.out)]
    /\ cr' = [cr EXCEPT ![c] = NoItem]
    /\ UNCHANGED <<procVars, rxAlive, delivered, destroyed, csrv, cfr, beats, acceptErrs, acceptLoop>>

\* ------------------------------------------------- keep-alive reporter

\* report_properties_and_keep_alive: each tick the manager hands one
\* instance-properties / keep-alive item to TxReporter, which try_sends it
\* on tx_ and only logs a failure
KeepAlive(p) == <<0, beats[p] + 1>>

ReportKeepAlive(p) ==
    /\ Spawned(p)
    /\ beats[p] < MaxBeats
    /\ LET t == try_send(queue[p], rxAlive[p], KeepAlive(p)) IN
        /\ queue' = [queue EXCEPT ![p] = t.q]
        /\ accepted' = [accepted EXCEPT ![p] =
                          IF t.out = "Ok" THEN Append(@, KeepAlive(p)) ELSE @]
        /\ dropped' = [dropped EXCEPT ![p] = IF t.out = "Full" THEN @ \cup {KeepAlive(p)} ELSE @]
    /\ beats' = [beats EXCEPT ![p] = @ + 1]
    /\ UNCHANGED <<procVars, rxAlive, delivered, destroyed, connVars, acceptErrs, acceptLoop>>

\* ------------------------------------------------------ upstream reporter

\* the reporter drives Consumer::consume (lines 211-213) as long as it has
\* the Consumer; a Pending recv is no step
Consume(p) ==
    /\ Spawned(p)
    /\ rxAlive[p]
    /\ LET t == consume(queue[p], Senders(p)) IN
        /\ t.out # "Pending"
        /\ queue' = [queue EXCEPT ![p] = t.q]
        /\ delivered' = [delivered EXCEPT ![p] = IF t.out = "Some" THEN Append(@, t.item) ELSE @]
    /\ UNCHANGED <<procVars, rxAlive, accepted, dropped, destroyed, connVars, beats, acceptErrs, acceptLoop>>

\* the reporter drives Consumer::try_consume (lines 215-217)
TryConsume(p) ==
    /\ Spawned(p)
    /\ rxAlive[p]
    /\ LET t == try_consume(queue[p]) IN
        /\ queue' = [queue EXCEPT ![p] = t.q]
        /\ delivered' = [delivered EXCEPT ![p] = IF t.out = "Some" THEN Append(@, t.item) ELSE @]
    /\ UNCHANGED <<procVars, rxAlive, accepted, dropped, destroyed, connVars, beats, acceptErrs, acceptLoop>>

\* ------------------------------------------------------------------ Next
Next ==
    \/ \E p \in Procs : TryLock(p)
    \/ \E p \in Procs : RemoveStaleSocket(p)
    \/ \E p \in Procs : RegisterSignals(p)
    \/ \E p \in Procs : BindListener(p)
    \/ \E p \in Procs : SigTerm(p)
    \/ \E p \in Procs : SigInt(p)
    \/ \E p \in Procs : ReporterFailed(p)
    \/ \E p \in Procs : ReporterDone(p)
    \/ \E p \in Procs : WorkerExitGuardDrop(p)
    \/ \E p \in Procs : Exit(p)
    \/ \E p \in Procs, c \in Conns : Connect(p, c)
    \/ \E p \in Procs, c \in Conns : Accept(p, c)
    \/ \E p \in Procs : AcceptFailed(p)
    \/ \E c \in Conns : ChannelReceive(c)
    \/ \E c \in Conns : TrySend(c)
    \/ \E p \in Procs : ReportKeepAlive(p)
    \/ \E p \in Procs : Consume(p)
    \/ \E p \in Procs : TryConsume(p)

Spec == Init /\ [][Next]_vars

\* ============================================================ properties

Range(q) == {q[i] : i \in 1 .. Len(q)}

\* the well-formed items decoded on connection c so far
ItemsOf(c) == {<<c, k>> : k \in {j \in 1 .. Len(cfr[c]) : cfr[c][j] = "item"}}

\* the step is the try_send of connection c's decode task
TrySendStep(c) == cst[c] = "send" /\ cst'[c] # "send" /\ pc' = pc

\* the step is a channel_receive of c that returned end-of-stream
EofStep(c) == cst[c] = "recv" /\ cst'[c] = "closed" /\ cfr'[c] = cfr[c]

\* the step is a channel_receive of c that returned a decode error
DecodeErrorStep(c) ==
    /\ cst[c] = "recv"
    /\ Len(cfr'[c]) = Len(cfr[c]) + 1
    /\ cfr'[c][Len(cfr'[c])] = "bad"

\* C1: a try_send made while the channel holds Capacity items returns Full
\* in the same step (it does not wait), the channel is left as it was, the
\* item is recorded as dropped and is no longer held for a retry, and the
\* decode task is back at channel_receive; a dropped item never enters the
\* channel afterwards.
DropOnFull ==
    [][\A c \in Conns :
        /\ (TrySendStep(c) /\ rxAlive[Srv(c)] /\ Len(queue[Srv(c)]) >= Capacity)
            => /\ cst'[c] = "recv"
               /\ queue'[Srv(c)] = queue[Srv(c)]
               /\ accepted'[Srv(c)] = accepted[Srv(c)]
               /\ cr[c] \in dropped'[Srv(c)]
               /\ cr'[c] = NoItem
               /\ cfr'[c] = cfr[c]
        /\ \A p \in Procs : dropped'[p] \cap Range(accepted'[p]) = {}
      ]_vars

DropOnFullWitness ==
    \E c \in Conns : \E p \in Procs :
        /\ csrv[c] = {p}
        /\ cst[c] = "recv"
        /\ <<c, Len(cfr[c])>> \in dropped[p]
        /\ Len(queue[p]) = Capacity

\* C2: the reporter obtains the items in the order they entered the channel
\* (what it has obtained, followed by what the channel holds or held when
\* the Receiver was dropped, is what was accepted), and the items of one connection are obtained in the order
\* their frames were received on it.
SinkOrder ==
    \A p \in Procs :
        /\ accepted[p] = delivered[p] \o queue[p] \o destroyed[p]
        /\ \A i, j \in 1 .. Len(delivered[p]) :
            (i < j /\ delivered[p][i][1] = delivered[p][j][1])
                => delivered[p][i][2] < delivered[p][j][2]

SinkOrderWitness ==
    \E p \in Procs : \E c \in Conns :
        delivered[p] = << <<c, 1>>, <<0, 1>>, <<c, 2>> >>

\* C3 (as claimed): every item of a connection accepted by try_send is
\* returned by the Consumer.  Stated on the final result: at the step that
\* ends the Receiver of a process shut down by a signal (its drop with the
\* pipeline future, or exit), after which nothing more can be returned, no
\* accepted item of a connection is left unreturned.
ReceiverEnds(p) == rxAlive[p] /\ ~rxAlive'[p]

AcceptedIsDelivered ==
    [][\A p \in Procs :
        (ReceiverEnds(p) /\ cause'[p] \in {"sigterm", "sigint"})
            => \A x \in Range(accepted[p]) :
                x[1] \in Conns => x \in Range(delivered[p])
      ]_vars

\* C4: once start_worker has returned (whatever ended it) the socket file
\* is absent, and it stays absent after the process has exited until another
\* live daemon binds it.
SocketRemovedOnShutdown ==
    \A p \in Procs :
        /\ pc[p] = "exiting" => sockFile = Absent
        /\ pc[p] = "exited" =>
            \/ sockFile = Absent
            \/ \E q \in Procs \ {p} : sockFile = BoundBy(q) /\ lock = {q}

SocketRemovedOnShutdownWitness ==
    \E p, q \in Procs :
        /\ pc[p] = "exited" /\ cause[p] = "fatal"
        /\ pc[q] = "exited" /\ cause[q] = "sigint"
        /\ sockFile = Absent

\* C5: a start attempt made while another process holds the lock returns
\* from init_worker (AlreadyRunning) leaving the lock and the socket file as
\* they were, and a process that returned this way performs no socket-file
\* operation, then or later.
AlreadyRunningNoSideEffects ==
    [][\A p \in Procs :
        /\ (pc[p] = "forked" /\ pc'[p] # "forked" /\ lock # {} /\ lock # {p})
            => /\ pc'[p] = "returned"
               /\ sockFile' = sockFile
               /\ lock' = lock
               /\ fsOps'[p] = {}
        /\ pc[p] = "returned" => (pc'[p] = "returned" /\ fsOps'[p] = {})
      ]_vars

AlreadyRunningNoSideEffectsWitness ==
    \E p, q \in Procs :
        /\ pc[p] = "returned"
        /\ pc[q] = "running"
        /\ sockFile = BoundBy(q)
        /\ fsOps[p] = {}

\* C6: a process past try_lock_with_pid and not yet exited is the one holder
\* of the lock; at most one process runs the pipeline, and it is the one
\* whose listener the socket file names.
HoldingStates == {"locked", "start", "select", "running", "dropguard", "exiting"}

SingleDaemon ==
    /\ \A p \in Procs : pc[p] \in HoldingStates <=> lock = {p}
    /\ Cardinality({p \in Procs : pc[p] \in HoldingStates}) <= 1
    /\ \A p \in Procs : pc[p] = "running" => (sockFile = BoundBy(p) /\ rxAlive[p])

SingleDaemonWitness ==
    \E p, q \in Procs :
        /\ pc[p] = "exited"
        /\ pc[q] = "running"
        /\ lock = {q}
        /\ sockFile = BoundBy(q)

\* C7: the exit status is 0 when a signal or the reporter's normal return
\* ended start_worker, and 1 when the reporter returned an error.
ExitCodes ==
    \A p \in Procs :
        pc[p] = "exited" =>
            /\ cause[p] \in {"sigterm", "sigint", "done"} => exitCode[p] = 0
            /\ cause[p] = "fatal" => exitCode[p] = 1

ExitCodesWitness ==
    \E p, q \in Procs :
        /\ pc[p] = "exited" /\ cause[p] = "sigterm" /\ exitCode[p] = 0
        /\ pc[q] = "exited" /\ cause[q] = "fatal" /\ exitCode[q] = 1

\* what an end-of-stream step of c leaves alone: every other connection,
\* every process (accept loop, reporter, keep-alive) and the channel
EofLeavesOthers(c) ==
    /\ \A d \in Conns \ {c} : cst'[d] = cst[d] /\ cfr'[d] = cfr[d] /\ cr'[d] = cr[d]
    /\ pc' = pc
    /\ rxAlive' = rxAlive
    /\ queue' = queue

\* C8 (as claimed): end-of-stream on c ends the decode task of c and nothing
\* else, and every item decoded on c before is in the channel's accepted
\* items.
EofEndsOnlyItsLoopAllEnqueued ==
    [][\A c \in Conns :
        EofStep(c) =>
            /\ EofLeavesOthers(c)
            /\ ItemsOf(c) \subseteq Range(accepted[Srv(c)])
      ]_vars

\* C8 (amended): end-of-stream on c ends the decode task of c and nothing
\* else, and every item decoded on c before has been handed to try_send:
\* it was accepted, or dropped because the channel was full.
EofEndsOnlyItsLoop ==
    [][\A c \in Conns :
        /\ EofStep(c) =>
            /\ EofLeavesOthers(c)
            /\ ItemsOf(c) \subseteq (Range(accepted[Srv(c)]) \cup dropped[Srv(c)])
        /\ (cst[c] = "closed" /\ pc' = pc) => (cst'[c] = "closed" /\ cfr'[c] = cfr[c])
      ]_vars

EofEndsOnlyItsLoopWitness ==
    \E c, d \in Conns : \E p \in Procs :
        /\ c # d
        /\ csrv[c] = {p} /\ csrv[d] = {p}
        /\ cst[c] = "closed"
        /\ <<c, 1>> \in dropped[p]
        /\ cst[d] = "recv"
        /\ pc[p] = "running"

\* C9: a decode error leaves the decode task at channel_receive, and every
\* well-formed frame received on the connection (after decode errors too)
\* is handed to try_send: it is the item held for try_send, or it was
\* accepted, dropped on a full channel, or refused by a closed one.
Offered(c, k) ==
    \/ cst[c] = "send" /\ cr[c] = <<c, k>>
    \/ <<c, k>> \in Range(accepted[Srv(c)])
    \/ <<c, k>> \in dropped[Srv(c)]
    \/ cst[c] = "ended" /\ k = Len(cfr[c])

DecodeErrorKeepsLoop ==
    [][\A c \in Conns :
        /\ DecodeErrorStep(c) => (cst'[c] = "recv" /\ cr'[c] = NoItem)
        /\ \A k \in 1 .. Len(cfr'[c]) :
            (cfr'[c][k] = "item" /\ \E j \in 1 .. k : cfr'[c][j] = "bad") => Offered(c, k)'
      ]_vars

DecodeErrorKeepsLoopWitness ==
    \E c \in Conns : \E p \in Procs :
        /\ csrv[c] = {p}
        /\ cfr[c] = <<"bad", "item">>
        /\ <<c, 2>> \in Range(delivered[p])

\* C10: the channel never holds more than its capacity, which is at most
\* the 255 it is created with.
QueueBounded ==
    /\ Capacity <= ChannelCapacity
    /\ \A p \in Procs : Len(queue[p]) <= Capacity

QueueBoundedWitness ==
    \E p \in Procs :
        /\ Len(queue[p]) = Capacity
        /\ dropped[p] # {}

\* C11 (as claimed): a process whose start_worker was ended by a signal
\* does not exit with items of the channel undelivered: at exit the channel
\* is empty and no item was destroyed with the Receiver.
DrainedBeforeExit ==
    [][\A p \in Procs :
        (pc[p] = "exiting" /\ pc'[p] = "exited" /\ cause[p] \in {"sigterm", "sigint"})
            => (destroyed[p] = <<>> /\ queue[p] = <<>>)
      ]_vars

\* C12 (as claimed): every startup failure (lock held by another process,
\* bind error, signal registration error) ends in the process having exited
\* with a non-zero status, without the pipeline having been started.
StartupFailed(p) ==
    \/ pc[p] = "returned"
    \/ pc[p] \in {"exiting", "exited"} /\ cause[p] \in {"bind", "sigreg"}

StartupFailureExitsNonZero ==
    \A p \in Procs :
        /\ StartupFailed(p) => ("bind" \notin fsOps[p] /\ ~rxAlive[p] /\ beats[p] = 0)
        /\ (StartupFailed(p) /\ pc[p] # "exiting")
            => (pc[p] = "exited" /\ exitCode[p] >= 1)

\* C14: a decode task leaves its loop (other than by the end of its
\* process) only at a channel_receive that returned end-of-stream or at a
\* try_send on a channel whose Receiver is gone; a decode error and a full
\* channel leave it in the loop, and with the Receiver gone the try_send
\* of the next decoded item ends it.
InLoop(c) == cst[c] \in {"recv", "send"}

LoopEndsOnlyOnEofOrClosed ==
    [][\A c \in Conns :
        /\ (InLoop(c) /\ ~InLoop(c)' /\ pc' = pc)
            => \/ EofStep(c)
               \/ cst[c] = "send" /\ ~rxAlive[Srv(c)] /\ cst'[c] = "ended"
        /\ (TrySendStep(c) /\ ~rxAlive[Srv(c)]) => cst'[c] = "ended"
        /\ (cst[c] = "send" /\ ~rxAlive[Srv(c)] /\ pc' = pc /\ cr'[c] # cr[c])
            => cst'[c] = "ended"
        /\ (cst[c] = "send" /\ rxAlive[Srv(c)] /\ pc' = pc /\ cr'[c] # cr[c])
            => cst'[c] = "recv"
        /\ DecodeErrorStep(c) => cst'[c] = "recv"
      ]_vars

LoopEndsOnlyOnEofOrClosedWitness ==
    \E c, d \in Conns : \E p \in Procs :
        /\ csrv[c] = {p} /\ csrv[d] = {p}
        /\ cst[c] = "ended"
        /\ cfr[c] = <<"bad", "item">>
        /\ cst[d] = "closed"
        /\ ~rxAlive[p]

\* C15: an accept error leaves the accept loop at listener.accept() and the
\* position of start_worker as it was; a decode error or a Full try_send
\* leaves every process where it was (a Full try_send happens in a process
\* whose Receiver exists); start_worker leaves run_reporter only
\* through select!: on SIGTERM / SIGINT or on the completion of the pipeline
\* future with the result of run_reporter.
AcceptErrorStep(p) == acceptErrs'[p] = acceptErrs[p] + 1

FullStep(p) == dropped'[p] \ dropped[p] # {}

LocalErrorsDoNotEscalate ==
    [][/\ \A p \in Procs :
            /\ AcceptErrorStep(p) => (acceptLoop'[p] /\ Spawned(p)' /\ pc' = pc /\ res' = res)
            /\ FullStep(p) => (Spawned(p) /\ rxAlive[p] /\ pc' = pc /\ res' = res)
            /\ (pc[p] = "running" /\ pc'[p] # "running")
                => /\ pc'[p] = "dropguard"
                   /\ \/ cause'[p] \in {"sigterm", "sigint"} /\ res'[p] = "Ok"
                      \/ cause'[p] = "done" /\ res'[p] = "Ok"
                      \/ cause'[p] = "fatal" /\ res'[p] = "Err"
                   /\ acceptErrs' = acceptErrs /\ dropped' = dropped /\ cfr' = cfr
       /\ \A c \in Conns : DecodeErrorStep(c) => (pc' = pc /\ res' = res)
      ]_vars

LocalErrorsDoNotEscalateWitness ==
    \E p \in Procs : \E c \in Conns :
        /\ pc[p] = "running"
        /\ acceptErrs[p] = MaxAcceptErrs
        /\ acceptLoop[p]
        /\ csrv[c] = {p}
        /\ cst[c] = "recv"
        /\ dropped[p] # {}

\* C16: a try_send that returns Full (of a decode task or of the keep-alive
\* reporter) happens on a channel holding Capacity items and leaves the
\* channel and what the reporter has obtained as they were; the reporter
\* then obtains the items the channel held, oldest first; an item whose
\* try_send returned Full is never in the channel and never obtained.
FullLeavesQueue ==
    [][\A p \in Procs :
        /\ FullStep(p)
            => /\ Len(queue[p]) = Capacity
               /\ queue'[p] = queue[p]
               /\ delivered'[p] = delivered[p]
        /\ (dropped[p] # {} /\ Len(delivered'[p]) = Len(delivered[p]) + 1)
            => /\ queue[p] # <<>>
               /\ delivered'[p] = Append(delivered[p], Head(queue[p]))
               /\ queue'[p] = Tail(queue[p])
        /\ dropped'[p] \cap Range(queue'[p]) = {}
        /\ dropped'[p] \cap Range(delivered'[p]) = {}
      ]_vars

FullLeavesQueueWitness ==
    \E p \in Procs :
        /\ dropped[p] # {}
        /\ Len(delivered[p]) = Capacity
        /\ delivered[p] = accepted[p]
        /\ queue[p] = <<>>

\* C17 (as claimed): when start_worker has returned without the socket file
\* ever having been bound by the process, WorkerExitGuard::drop has removed
\* nothing and logged the warning "Socket file not created", not the error
\* of a failed removal.
NeverCreatedGuardWarns ==
    \A p \in Procs :
        (pc[p] = "exiting" /\ "bind" \notin fsOps[p])
            => (guardLog[p] = "not_created" /\ "guard_remove" \notin fsOps[p])

\* C18: while the reporter has the Consumer, try_consume can always be taken (it
\* never suspends) and returns the head of the channel, or None when the
\* channel is empty; consume returns the head when the channel is not
\* empty, is suspended (no step) while the channel is empty and a Sender
\* exists, and returns None only when the channel is empty and no Sender
\* exists.
ConsumerSemantics ==
    \A p \in Procs :
        (Spawned(p) /\ rxAlive[p]) =>
            LET t == try_consume(queue[p])
                n == consume(queue[p], Senders(p))
            IN
            /\ ENABLED TryConsume(p)
            /\ queue[p] # <<>>
                => /\ t.out = "Some" /\ t.item = Head(queue[p]) /\ t.q = Tail(queue[p])
                   /\ n.out = "Some" /\ n.item = Head(queue[p]) /\ n.q = Tail(queue[p])
                   /\ ENABLED Consume(p)
            /\ queue[p] = <<>>
                => /\ t.out = "None" /\ t.q = queue[p]
                   /\ n.q = queue[p]
                   /\ n.out = (IF Senders(p) > 0 THEN "Pending" ELSE "None")
            /\ (queue[p] = <<>> /\ Senders(p) > 0) => ~ENABLED Consume(p)

ConsumerSemanticsWitness ==
    \E p \in Procs :
        /\ pc[p] = "running"
        /\ queue[p] = <<>>
        /\ Len(delivered[p]) >= 2
        /\ Senders(p) > 0

\* C19: every step that removes or binds the socket file (the removal of a
\* file found at startup, UnixListener::bind, the removal by the exit
\* guard) is taken by a process that holds the pid lock before and after
\* the step, and the file it touches was not bound by another process;
\* a bound socket file always belongs to the holder of the lock.
SocketOp(p) == fsOps'[p] \ fsOps[p] # {}

SocketOpsUnderLock ==
    [][/\ \A p \in Procs :
            SocketOp(p)
                => /\ lock = {p} /\ lock' = {p}
                   /\ sockFile.by \subseteq {p}
                   /\ sockFile'.by \subseteq {p}
       /\ sockFile' # sockFile => \E p \in Procs : SocketOp(p)
       /\ sockFile'.by \subseteq lock'
      ]_vars

SocketOpsUnderLockWitness ==
    \E p \in Procs : \E q \in Procs \ {p} :
        /\ fsOps[p] = {"remove", "bind", "guard_remove"}
        /\ lock = {p}
        /\ pc[q] = "returned"

\* C20: the reporter obtains no item twice and no item that was not made:
\* every item it has obtained is a well-formed frame received on a
\* connection of this process or a keep-alive event that was emitted; every
\* well-formed frame received has exactly one fate (held for its try_send,
\* accepted, dropped on Full, or refused by the closed channel); and no item
\* entered the channel twice.
Occurrences(q, x) == Cardinality({i \in 1 .. Len(q) : q[i] = x})

Fates(c, k) ==
    LET x == <<c, k>>
        p == Srv(c)
    IN  (IF cst[c] = "send" /\ cr[c] = x THEN {"held"} ELSE {})
        \cup (IF x \in Range(accepted[p]) THEN {"accepted"} ELSE {})
        \cup (IF x \in dropped[p] THEN {"dropped"} ELSE {})
        \cup (IF cst[c] = "ended" /\ k = Len(cfr[c]) /\ x \notin Range(accepted[p])
                 /\ x \notin dropped[p]
              THEN {"refused"} ELSE {})

NoDuplicationNoFabrication ==
    \A p \in Procs :
        /\ \A x \in Range(delivered[p]) :
            /\ Occurrences(delivered[p], x) = 1
            /\ Occurrences(accepted[p], x) = 1
            /\ \/ x[1] \in Conns /\ csrv[x[1]] = {p} /\ x \in ItemsOf(x[1])
               \/ x[1] = 0 /\ x[2] \in 1 .. beats[p]
        /\ \A x \in Range(queue[p]) :
            /\ Occurrences(queue[p], x) = 1
            /\ Occurrences(accepted[p], x) = 1
            /\ x \notin Range(delivered[p])
        /\ \A c \in Conns :
            csrv[c] = {p} =>
                \A k \in 1 .. Len(cfr[c]) :
                    cfr[c][k] = "item" => Cardinality(Fates(c, k)) = 1

NoDuplicationNoFabricationWitness ==
    \E p \in Procs :
        /\ Len(delivered[p]) = NConns + MaxBeats
        /\ \A c \in Conns : <<c, 1>> \in Range(delivered[p])
        /\ <<0, 1>> \in Range(delivered[p])

====
